---- MODULE Spec2Model ----
(***************************************************************************)
(* Model of applications/manual_read_write/rw_segy.py: the table-driven    *)
(* codec of the 400-byte binary file header, the 3200-byte textual file    *)
(* header and the read / modify / write cycle around them.                 *)
(*                                                                         *)
(* Bytes are integers 0..255 and a bytes object is a sequence of them.     *)
(* A Python int has arbitrary precision; it is held as a sign and a        *)
(* sequence of base-65536 limbs, least significant first, without leading  *)
(* zero limbs (the shape of CPython's own digit array), because the        *)
(* header holds 32- and 64-bit unsigned fields.                            *)
(***************************************************************************)
EXTENDS Integers, Sequences, FiniteSets, TLC

(* ------------------------------ bounds --------------------------------- *)
\* number of byte patterns the input files are drawn from
NumPatterns == 2
\* largest number of payload bytes after the two headers
MaxPayload == 1

(* ------------------------- program constants --------------------------- *)
BINARY_FILE_HEADER_SIZE == 400
TEXTUAL_FILE_HEADER_SIZE == 3200
LineWidth == 80
DefaultOffset == 3200
IntConstant == 16909060
NrOfExtensionsValue == 16
LimbBase == 256 * 256

None == [tag |-> "None"]

(* ------------------------------ helpers -------------------------------- *)
Min(a, b) == IF a < b THEN a ELSE b

\* Python's s[a:b] for 0 <= a: both ends are clipped to len(s)
Slice(s, a, b) == SubSeq(s, Min(a, Len(s)) + 1, Min(b, Len(s)))

\* Python's s[a:]
SliceFrom(s, a) == SubSeq(s, Min(a, Len(s)) + 1, Len(s))

(* ----------------------------- Python values --------------------------- *)
PyBytes(b) == [tag |-> "bytes", neg |-> FALSE, limbs |-> << >>, b |-> b]

PyIntLimbs(neg, limbs) == [tag |-> "int", neg |-> neg, limbs |-> limbs, b |-> << >>]

RECURSIVE ToLimbs(_)
ToLimbs(n) == IF n = 0 THEN << >> ELSE <<n % LimbBase>> \o ToLimbs(n \div LimbBase)

\* an int literal of the source
PyInt(n) == IF n < 0 THEN PyIntLimbs(TRUE, ToLimbs(-n)) ELSE PyIntLimbs(FALSE, ToLimbs(n))

\* drop the most significant limbs that are zero
RECURSIVE Normalize(_)
Normalize(limbs) ==
  IF limbs # << >> /\ limbs[Len(limbs)] = 0
  THEN Normalize(SubSeq(limbs, 1, Len(limbs) - 1))
  ELSE limbs

(* ------------------------------- schema -------------------------------- *)
defined_fields ==
  << <<"I", "job_nr">>,
     <<"I", "line_nr">>,
     <<"I", "reel_nr">>,
     <<"H", "nr_of_traces">>,
     <<"H", "nr_of_aux">>,
     <<"H", "sample_int_1">>,
     <<"H", "sample_int_2">>,
     <<"H", "nr_samples_per_trace">>,
     <<"H", "nr_samples_per_data_trace">>,
     <<"H", "format_code">>,
     <<"H", "ensemble_fold">>,
     <<"H", "trace_sorting_code">>,
     <<"H", "vertical_sum_code">>,
     <<"H", "sweep_freq_start">>,
     <<"H", "sweep_freq_end">>,
     <<"H", "sweep_freq_length">>,
     <<"H", "sweep_type_code">>,
     <<"H", "trace_nr">>,
     <<"H", "sweep_trace_taper_start">>,
     <<"H", "sweep_trace_taper_end">>,
     <<"H", "taper_type">>,
     <<"H", "correlated_trace">>,
     <<"H", "binary_gain_recovered">>,
     <<"H", "amp_recover_method">>,
     <<"H", "measurement_system">>,
     <<"H", "impulse_signal_polarity">>,
     <<"H", "vib_polarity_code">>,
     <<"I", "ext_nr_data_traces_pr_ensemble">>,
     <<"I", "ext_nr_aux_traces_pr_ensemble">>,
     <<"I", "ext_nr_sample_pr_data_trace">>,
     <<"Q", "ext_sample_interval_IEEE">>,
     <<"Q", "ext_sample_interval_original_IEEE">>,
     <<"I", "ext_sample_interval_original">>,
     <<"I", "ext_ensemble_fold">>,
     <<"I", "int_constant">>,
     <<"200s", "unassigned_1">>,
     <<"B", "major_ver">>,
     <<"B", "min_ver">>,
     <<"H", "trace_flag">>,
     <<"H", "nr_of_extensions">>,
     <<"H", "max_trace_headers">>,
     <<"H", "survey_type">>,
     <<"Q", "time_code">>,
     <<"Q", "ext_nr_of_traces">>,
     <<"I", "bytes_offset">>,
     <<"I", "nr_data_trailer">>,
     <<"66s", "unassigned_2">> >>

(* --------------------------- struct.Struct ----------------------------- *)
\* a format is a byte string when it ends in "s"
IsStringType(d_type) == d_type \in {"200s", "66s"}

\* struct.calcsize(">" + d_type): standard sizes, no alignment
StructSize(d_type) ==
  CASE d_type = "B" -> 1
    [] d_type = "H" -> 2
    [] d_type = "I" -> 4
    [] d_type = "Q" -> 8
    [] d_type = "200s" -> 200
    [] d_type = "66s" -> 66

\* Field.__init__
Field(name, d_type) == [name |-> name, type |-> d_type, length |-> StructSize(d_type)]

StructError(line) == [exc |-> "struct.error", arg |-> "", line |-> line]
KeyError(key, line) == [exc |-> "KeyError", arg |-> key, line |-> line]
AssertionError(msg, line) == [exc |-> "AssertionError", arg |-> msg, line |-> line]
NoError == [exc |-> "", arg |-> "", line |-> 0]

\* the limbs of the big-endian unsigned integer held in bytes bs, least
\* significant limb first: the last two bytes make limb 1, and so on
RECURSIVE BigEndianLimbs(_)
BigEndianLimbs(bs) ==
  IF bs = << >> THEN << >>
  ELSE IF Len(bs) = 1 THEN <<bs[1]>>
  ELSE <<bs[Len(bs) - 1] * 256 + bs[Len(bs)]>> \o BigEndianLimbs(SubSeq(bs, 1, Len(bs) - 2))

\* variant: integers read least significant byte first
UnpackLittleEndian(d_type, bs) ==
  IF Len(bs) # StructSize(d_type) THEN [ok |-> FALSE, value |-> None]
  ELSE IF IsStringType(d_type) THEN [ok |-> TRUE, value |-> PyBytes(bs)]
  ELSE [ok |-> TRUE,
        value |-> PyIntLimbs(FALSE,
                    Normalize(BigEndianLimbs([i \in 1..Len(bs) |-> bs[Len(bs) + 1 - i]])))]

\* Struct(">" + d_type).unpack(bs)[0]; a buffer of another size is an error
Unpack(d_type, bs) ==
  IF Len(bs) # StructSize(d_type) THEN [ok |-> FALSE, value |-> None]
  ELSE IF IsStringType(d_type) THEN [ok |-> TRUE, value |-> PyBytes(bs)]
  ELSE [ok |-> TRUE, value |-> PyIntLimbs(FALSE, Normalize(BigEndianLimbs(bs)))]

\* limb i of the value (0 above the most significant one)
LimbAt(limbs, i) == IF i <= Len(limbs) THEN limbs[i] ELSE 0

\* variant: least significant byte first
BigEndianByteSwapped(limbs, size, k) ==
  LET fromLow == k - 1
      limb == LimbAt(limbs, (fromLow \div 2) + 1)
  IN  IF fromLow % 2 = 0 THEN limb % 256 ELSE limb \div 256

\* byte k (1 = most significant) of the size-byte big-endian form
BigEndianByte(limbs, size, k) ==
  LET fromLow == size - k
      limb == LimbAt(limbs, (fromLow \div 2) + 1)
  IN  IF fromLow % 2 = 0 THEN limb % 256 ELSE limb \div 256

\* 0 <= value < 256^size
FitsUnsigned(v, size) ==
  /\ ~v.neg
  /\ IF size = 1
     THEN Len(v.limbs) = 0 \/ (Len(v.limbs) = 1 /\ v.limbs[1] < 256)
     ELSE Len(v.limbs) <= size \div 2

\* Struct(">" + d_type).pack(v): integers are range checked; a byte string
\* is cut to the slot or filled up with null bytes
Pack(d_type, v) ==
  LET size == StructSize(d_type) IN
  IF IsStringType(d_type)
  THEN IF v.tag # "bytes" THEN [ok |-> FALSE, bytes |-> << >>]
       ELSE [ok |-> TRUE,
             bytes |-> [k \in 1..size |-> IF k <= Len(v.b) THEN v.b[k] ELSE 0]]
  ELSE IF v.tag # "int" \/ ~FitsUnsigned(v, size) THEN [ok |-> FALSE, bytes |-> << >>]
       ELSE [ok |-> TRUE, bytes |-> [k \in 1..size |-> BigEndianByte(v.limbs, size, k)]]

(* ------------------------- BinaryFileHeader ---------------------------- *)
FieldNames == {defined_fields[i][2] : i \in 1..Len(defined_fields)}

\* self.fields after the first loop of __init__
MakeFields == [i \in 1..Len(defined_fields) |-> Field(defined_fields[i][2], defined_fields[i][1])]

\* variant: byte string fields get no entry in values
RECURSIVE DecodeWalkSkipStrings(_, _, _, _, _)
DecodeWalkSkipStrings(fields, data, offset, i, w) ==
  IF i > Len(fields) \/ ~w.ok THEN w
  ELSE LET field == fields[i]
           u == Unpack(field.type, Slice(data, w.pos, w.pos + field.length))
       IN  DecodeWalkSkipStrings(fields, data, offset, i + 1,
             [ok |-> u.ok,
              pos |-> IF u.ok THEN w.pos + field.length ELSE w.pos,
              values |-> IF u.ok /\ ~IsStringType(field.type)
                         THEN (field.name :> u.value) @@ w.values ELSE w.values,
              pos_value |-> (field.name :> <<offset + w.pos,
                                              offset + w.pos + field.length,
                                              field.type>>) @@ w.pos_value])

\* variant: the start of a range is recorded without the base offset
RECURSIVE DecodeWalkLocalStart(_, _, _, _, _)
DecodeWalkLocalStart(fields, data, offset, i, w) ==
  IF i > Len(fields) \/ ~w.ok THEN w
  ELSE LET field == fields[i]
           u == Unpack(field.type, Slice(data, w.pos, w.pos + field.length))
       IN  DecodeWalkLocalStart(fields, data, offset, i + 1,
             [ok |-> u.ok,
              pos |-> IF u.ok THEN w.pos + field.length ELSE w.pos,
              values |-> IF u.ok THEN (field.name :> u.value) @@ w.values ELSE w.values,
              pos_value |-> (field.name :> <<w.pos,
                                              offset + w.pos + field.length,
                                              field.type>>) @@ w.pos_value])

\* the second loop of __init__ from field i on; w holds pos, values,
\* pos_value and whether an unpack has raised
RECURSIVE DecodeWalk(_, _, _, _, _)
DecodeWalk(fields, data, offset, i, w) ==
  IF i > Len(fields) \/ ~w.ok THEN w
  ELSE LET field == fields[i]
           u == Unpack(field.type, Slice(data, w.pos, w.pos + field.length))
       IN  DecodeWalk(fields, data, offset, i + 1,
             [ok |-> u.ok,
              pos |-> IF u.ok THEN w.pos + field.length ELSE w.pos,
              values |-> IF u.ok THEN (field.name :> u.value) @@ w.values ELSE w.values,
              pos_value |-> (field.name :> <<offset + w.pos,
                                              offset + w.pos + field.length,
                                              field.type>>) @@ w.pos_value])

\* variant: only a buffer that is too short is refused
BinaryFileHeaderInitMinLength(data, offset) ==
  IF Len(data) < BINARY_FILE_HEADER_SIZE
  THEN [ok |-> FALSE, err |-> AssertionError("", 87), obj |-> None]
  ELSE LET fields == MakeFields
           w == DecodeWalk(fields, data, offset, 1,
                           [ok |-> TRUE, pos |-> 0, values |-> << >>, pos_value |-> << >>])
       IN  IF ~w.ok
           THEN [ok |-> FALSE, err |-> StructError(103), obj |-> None]
           ELSE IF w.pos # BINARY_FILE_HEADER_SIZE
           THEN [ok |-> FALSE, err |-> AssertionError("", 108), obj |-> None]
           ELSE IF w.values["int_constant"] # PyInt(IntConstant)
           THEN [ok |-> FALSE, err |-> AssertionError("Wrong endianness", 109), obj |-> None]
           ELSE [ok |-> TRUE, err |-> NoError,
                 obj |-> [tag |-> "BinaryFileHeader", offset |-> offset, data |-> data,
                          pos |-> w.pos, fields |-> fields,
                          values |-> w.values, pos_value |-> w.pos_value]]

\* BinaryFileHeader.__init__(data, offset): the new object, or the exception
BinaryFileHeaderInit(data, offset) ==
  IF Len(data) # BINARY_FILE_HEADER_SIZE
  THEN [ok |-> FALSE, err |-> AssertionError("", 87), obj |-> None]
  ELSE LET fields == MakeFields
           w == DecodeWalk(fields, data, offset, 1,
                           [ok |-> TRUE, pos |-> 0, values |-> << >>, pos_value |-> << >>])
       IN  IF ~w.ok
           THEN [ok |-> FALSE, err |-> StructError(103), obj |-> None]
           ELSE IF w.pos # BINARY_FILE_HEADER_SIZE
           THEN [ok |-> FALSE, err |-> AssertionError("", 108), obj |-> None]
           ELSE IF w.values["int_constant"] # PyInt(IntConstant)
           THEN [ok |-> FALSE, err |-> AssertionError("Wrong endianness", 109), obj |-> None]
           ELSE [ok |-> TRUE, err |-> NoError,
                 obj |-> [tag |-> "BinaryFileHeader", offset |-> offset, data |-> data,
                          pos |-> w.pos, fields |-> fields,
                          values |-> w.values, pos_value |-> w.pos_value]]

\* variant: each packed field is put in front of out_data
RECURSIVE DumpWalkPrepend(_, _, _, _)
DumpWalkPrepend(fields, values, i, out) ==
  IF i > Len(fields) THEN [ok |-> TRUE, err |-> NoError, bytes |-> out]
  ELSE LET field == fields[i] IN
       IF field.name \notin DOMAIN values
       THEN [ok |-> FALSE, err |-> KeyError(field.name, 116), bytes |-> << >>]
       ELSE LET p == Pack(field.type, values[field.name]) IN
            IF ~p.ok
            THEN [ok |-> FALSE, err |-> StructError(117), bytes |-> << >>]
            ELSE DumpWalkPrepend(fields, values, i + 1, p.bytes \o out)

\* the loop of dump_data from field i on, out being out_data so far
RECURSIVE DumpWalk(_, _, _, _)
DumpWalk(fields, values, i, out) ==
  IF i > Len(fields) THEN [ok |-> TRUE, err |-> NoError, bytes |-> out]
  ELSE LET field == fields[i] IN
       IF field.name \notin DOMAIN values
       THEN [ok |-> FALSE, err |-> KeyError(field.name, 116), bytes |-> << >>]
       ELSE LET p == Pack(field.type, values[field.name]) IN
            IF ~p.ok
            THEN [ok |-> FALSE, err |-> StructError(117), bytes |-> << >>]
            ELSE DumpWalk(fields, values, i + 1, out \o p.bytes)

\* BinaryFileHeader.dump_data()
dump_data(self) == DumpWalk(self.fields, self.values, 1, << >>)

(* ------------------------- TextualFileHeader --------------------------- *)
\* code point of every byte 0..255 under code page 1141 (entry b + 1)
cp1141_decoding_table ==
  <<
     0, 1, 2, 3, 156, 9, 134, 127, 151, 141, 142, 11, 12, 13, 14, 15,
     16, 17, 18, 19, 157, 133, 8, 135, 24, 25, 146, 143, 28, 29, 30, 31,
     128, 129, 130, 131, 132, 10, 23, 27, 136, 137, 138, 139, 140, 5, 6, 7,
     144, 145, 22, 147, 148, 149, 150, 4, 152, 153, 154, 155, 20, 21, 158, 26,
     32, 160, 226, 123, 224, 225, 227, 229, 231, 241, 196, 46, 60, 40, 43, 33,
     38, 233, 234, 235, 232, 237, 238, 239, 236, 126, 220, 36, 42, 41, 59, 94,
     45, 47, 194, 91, 192, 193, 195, 197, 199, 209, 246, 44, 37, 95, 62, 63,
     248, 201, 202, 203, 200, 205, 206, 207, 204, 96, 58, 35, 167, 39, 61, 34,
     216, 97, 98, 99, 100, 101, 102, 103, 104, 105, 171, 187, 240, 253, 254, 177,
     176, 106, 107, 108, 109, 110, 111, 112, 113, 114, 170, 186, 230, 184, 198, 8364,
     181, 223, 115, 116, 117, 118, 119, 120, 121, 122, 161, 191, 208, 221, 222, 174,
     162, 163, 165, 183, 169, 64, 182, 188, 189, 190, 172, 124, 175, 168, 180, 215,
     228, 65, 66, 67, 68, 69, 70, 71, 72, 73, 173, 244, 166, 242, 243, 245,
     252, 74, 75, 76, 77, 78, 79, 80, 81, 82, 185, 251, 125, 249, 250, 255,
     214, 247, 83, 84, 85, 86, 87, 88, 89, 90, 178, 212, 92, 210, 211, 213,
     48, 49, 50, 51, 52, 53, 54, 55, 56, 57, 179, 219, 93, 217, 218, 159
  >>

\* bytes.decode("cp1141")
DecodeCp1141(data) == [i \in 1..Len(data) |-> cp1141_decoding_table[data[i] + 1]]

\* variant: a line ends one character early
TextualFileHeaderInitShortLines(data) ==
  IF Len(data) # TEXTUAL_FILE_HEADER_SIZE
  THEN [ok |-> FALSE, err |-> AssertionError("", 132), obj |-> None]
  ELSE LET text == DecodeCp1141(data) IN
       [ok |-> TRUE, err |-> NoError,
        obj |-> [tag |-> "TextualFileHeader", data |-> data, text |-> text,
                 lines |-> [i \in 1..(TEXTUAL_FILE_HEADER_SIZE \div LineWidth) |->
                              Slice(text, (i - 1) * LineWidth, i * LineWidth - 1)]]]

\* TextualFileHeader.__init__(data)
TextualFileHeaderInit(data) ==
  IF Len(data) # TEXTUAL_FILE_HEADER_SIZE
  THEN [ok |-> FALSE, err |-> AssertionError("", 132), obj |-> None]
  ELSE LET text == DecodeCp1141(data) IN
       [ok |-> TRUE, err |-> NoError,
        obj |-> [tag |-> "TextualFileHeader", data |-> data, text |-> text,
                 lines |-> [i \in 1..(TEXTUAL_FILE_HEADER_SIZE \div LineWidth) |->
                              Slice(text, (i - 1) * LineWidth, i * LineWidth)]]]

(* ------------------------------- inputs -------------------------------- *)
\* sum of the byte lengths of the first n schema entries
RECURSIVE PrefixLength(_)
PrefixLength(n) == IF n = 0 THEN 0 ELSE PrefixLength(n - 1) + StructSize(defined_fields[n][1])

\* position of a field name in the schema
IndexOf(name) == CHOOSE i \in 1..Len(defined_fields) : defined_fields[i][2] = name

\* byte i (from 0) of textual header pattern k
TextByte(k, i) == IF k = 0 THEN 64 ELSE (i * (2 * k + 1) + 7 * k) % 256

\* byte i (from 0) of binary header pattern k: runs of zero and non-zero bytes
BinByte(k, i) ==
  IF k = 0 \/ (i \div 3) % 2 = 0 THEN 0 ELSE (i * (2 * k + 1) + 7 * k) % 256

SentinelKinds == {"valid", "reversed", "raw"}

\* a 400-byte header image: pattern k, the int_constant slot set per
\* sentinel, the nr_of_extensions slot zeroed when zeroExt
BinImage(k, sentinel, zeroExt) ==
  LET s == PrefixLength(IndexOf("int_constant") - 1)
      e == PrefixLength(IndexOf("nr_of_extensions") - 1)
  IN  [j \in 1..BINARY_FILE_HEADER_SIZE |->
         LET i == j - 1 IN
         IF i \in s..(s + 3) /\ sentinel = "valid" THEN i - s + 1
         ELSE IF i \in s..(s + 3) /\ sentinel = "reversed" THEN 4 - (i - s)
         ELSE IF i \in e..(e + 1) /\ zeroExt THEN 0
         ELSE BinByte(k, i)]

TextImage(k) == [j \in 1..TEXTUAL_FILE_HEADER_SIZE |-> TextByte(k, j - 1)]

Payload(k, n) == [j \in 1..n |-> (k + 11 * j + 5) % 256]

\* lengths of input files too short to hold both headers
ShortLengths == {0, TEXTUAL_FILE_HEADER_SIZE - 1,
                 TEXTUAL_FILE_HEADER_SIZE + BINARY_FILE_HEADER_SIZE - 1}

InputFiles ==
  LET full == {TextImage(k) \o BinImage(k, s, z) \o Payload(k, n) :
                 k \in 0..(NumPatterns - 1), s \in SentinelKinds,
                 z \in BOOLEAN, n \in 0..MaxPayload}
  IN  full \cup {SubSeq(TextImage(0) \o BinImage(0, "valid", TRUE), 1, l) : l \in ShortLengths}

\* what the destination path holds before the program runs
Absent == [exists |-> FALSE, bytes |-> << >>]
OldFile == [exists |-> TRUE, bytes |-> <<83, 69, 71, 89>>]

\* base offsets a caller passes to BinaryFileHeader
Offsets == {0, DefaultOffset}

\* buffers a caller hands to a header class: seg itself, seg with one more
\* byte, seg twice
CallerBuffers(seg) == {seg, seg \o <<0>>, seg \o seg}

\* the limbs of 256^size - 1 and of 256^size
MaxLimbs(size) == IF size = 1 THEN <<255>> ELSE [i \in 1..(size \div 2) |-> LimbBase - 1]
OverLimbs(size) == IF size = 1 THEN <<256>> ELSE [i \in 1..(size \div 2) |-> 0] \o <<1>>

NewString(n) == [j \in 1..n |-> (j * 5 + 1) % 256]

\* values a caller may store for a field of the given type
InRangeValues(d_type) ==
  IF IsStringType(d_type) THEN {PyBytes(NewString(StructSize(d_type)))}
  ELSE {PyInt(NrOfExtensionsValue), PyIntLimbs(FALSE, MaxLimbs(StructSize(d_type)))}

BadValues(d_type) ==
  IF IsStringType(d_type)
  THEN {PyBytes(NewString(3)), PyBytes(NewString(StructSize(d_type) + 1)),
        PyInt(NrOfExtensionsValue)}
  ELSE {PyIntLimbs(FALSE, OverLimbs(StructSize(d_type))), PyInt(-1), PyBytes(NewString(2))}

(* -------------------------------- state -------------------------------- *)
VARIABLES
  file,                 \* the bytes of the input file
  dest0,                \* the destination path before the run
  dest,                 \* the destination path now
  pc,                   \* "start", "read", "done" or "failed"
  textual_file_header,  \* the three segments read_file_from_disk returns
  binary_file_header,
  rest,
  tfh,                  \* the TextualFileHeader object, or None
  bfh,                  \* the BinaryFileHeader object, or None
  touched,              \* names whose entry of bfh.values the caller changed
  out_data,             \* what the last dump_data() returned, or None
  err,                  \* the exception that ended the run
  call                  \* the last constructor call: class and data argument

vars == <<file, dest0, dest, pc, textual_file_header, binary_file_header, rest,
          tfh, bfh, touched, out_data, err, call>>

Init ==
  /\ file \in InputFiles
  /\ dest0 \in {Absent, OldFile}
  /\ dest = dest0
  /\ pc = "start"
  /\ textual_file_header = << >>
  /\ binary_file_header = << >>
  /\ rest = << >>
  /\ tfh = None
  /\ bfh = None
  /\ touched = {}
  /\ out_data = None
  /\ err = NoError
  /\ call = [class |-> "", data |-> << >>]

\* read_file_from_disk(file_name)
ReadFileFromDisk ==
  /\ pc = "start"
  /\ textual_file_header' = Slice(file, 0, TEXTUAL_FILE_HEADER_SIZE)
  /\ binary_file_header' = Slice(file, TEXTUAL_FILE_HEADER_SIZE,
                                 TEXTUAL_FILE_HEADER_SIZE + BINARY_FILE_HEADER_SIZE)
  /\ rest' = SliceFrom(file, TEXTUAL_FILE_HEADER_SIZE + BINARY_FILE_HEADER_SIZE)
  /\ pc' = "read"
  /\ UNCHANGED <<file, dest0, dest, tfh, bfh, touched, out_data, err, call>>

\* tfh = TextualFileHeader(data)
NewTextualFileHeader ==
  /\ pc = "read"
  /\ tfh = None
  /\ \E data \in CallerBuffers(textual_file_header) :
       LET r == TextualFileHeaderInit(data) IN
       /\ tfh' = r.obj
       /\ call' = [class |-> "TextualFileHeader", data |-> data]
       /\ err' = r.err
       /\ pc' = IF r.ok THEN pc ELSE "failed"
  /\ UNCHANGED <<file, dest0, dest, textual_file_header, binary_file_header, rest,
                 bfh, touched, out_data>>

\* bfh = BinaryFileHeader(data, offset)
NewBinaryFileHeader ==
  /\ pc = "read"
  /\ tfh # None
  /\ bfh = None
  /\ \E data \in CallerBuffers(binary_file_header), offset \in Offsets :
       LET r == BinaryFileHeaderInit(data, offset) IN
       /\ bfh' = r.obj
       /\ call' = [class |-> "BinaryFileHeader", data |-> data]
       /\ err' = r.err
       /\ pc' = IF r.ok THEN pc ELSE "failed"
  /\ UNCHANGED <<file, dest0, dest, textual_file_header, binary_file_header, rest,
                 tfh, touched, out_data>>

\* bfh.values[name] = v, once, before the header is dumped or written
SetValue ==
  /\ pc = "read"
  /\ bfh # None
  /\ touched = {}
  /\ out_data = None
  /\ \E i \in 1..Len(defined_fields) :
       LET name == defined_fields[i][2]
           d_type == defined_fields[i][1]
       IN  \E v \in InRangeValues(d_type) \cup BadValues(d_type) :
             /\ bfh' = [bfh EXCEPT !.values = (name :> v) @@ @]
             /\ touched' = {name}
  /\ UNCHANGED <<file, dest0, dest, pc, textual_file_header, binary_file_header, rest,
                 tfh, out_data, err, call>>

\* del bfh.values[name]
DelValue ==
  /\ pc = "read"
  /\ bfh # None
  /\ touched = {}
  /\ out_data = None
  /\ \E name \in DOMAIN bfh.values :
       /\ bfh' = [bfh EXCEPT !.values = [n \in (DOMAIN @) \ {name} |-> @[n]]]
       /\ touched' = {name}
  /\ UNCHANGED <<file, dest0, dest, pc, textual_file_header, binary_file_header, rest,
                 tfh, out_data, err, call>>

\* out_data = bfh.dump_data()
DumpData ==
  /\ pc = "read"
  /\ bfh # None
  /\ out_data = None
  /\ LET r == dump_data(bfh) IN
       /\ out_data' = IF r.ok THEN PyBytes(r.bytes) ELSE None
       /\ err' = r.err
       /\ pc' = IF r.ok THEN pc ELSE "failed"
  /\ UNCHANGED <<file, dest0, dest, textual_file_header, binary_file_header, rest,
                 tfh, bfh, touched, call>>

\* variant: the payload is written before the binary header
write_file_to_disk_payload_first(text, self, payload) ==
  LET r == dump_data(self) IN
  IF r.ok
  THEN [ok |-> TRUE, err |-> NoError,
        file |-> [exists |-> TRUE, bytes |-> (text \o payload) \o r.bytes]]
  ELSE [ok |-> FALSE, err |-> r.err, file |-> [exists |-> TRUE, bytes |-> text]]

\* what write_file_to_disk leaves at the path: "wb" empties the file, the
\* textual header is written, then dump_data() runs and may raise, and the
\* with block closes the file in either case
write_file_to_disk(text, self, payload) ==
  LET r == dump_data(self) IN
  IF r.ok
  THEN [ok |-> TRUE, err |-> NoError,
        file |-> [exists |-> TRUE, bytes |-> (text \o r.bytes) \o payload]]
  ELSE [ok |-> FALSE, err |-> r.err, file |-> [exists |-> TRUE, bytes |-> text]]

\* write_file_to_disk(write_file_name, textual_file_header, bfh, rest), by a
\* caller that has not dumped the header itself
WriteFileToDisk ==
  /\ pc = "read"
  /\ bfh # None
  /\ out_data = None
  /\ LET r == write_file_to_disk(textual_file_header, bfh, rest) IN
       /\ dest' = r.file
       /\ err' = r.err
       /\ pc' = IF r.ok THEN "done" ELSE "failed"
  /\ UNCHANGED <<file, dest0, textual_file_header, binary_file_header, rest,
                 tfh, bfh, touched, out_data, call>>

Next ==
  \/ ReadFileFromDisk
  \/ NewTextualFileHeader
  \/ NewBinaryFileHeader
  \/ SetValue
  \/ DelValue
  \/ DumpData
  \/ WriteFileToDisk

Spec == Init /\ [][Next]_vars

(* ------------------------------ properties ----------------------------- *)
\* the schema entry of a field name
TypeOf(name) == defined_fields[IndexOf(name)][1]

\* byte range [lo, hi) of a field inside the header, by the schema alone
SlotLo(name) == PrefixLength(IndexOf(name) - 1)
SlotHi(name) == PrefixLength(IndexOf(name))

\* base-256 digit d (0 = least significant) of a non-negative value
Digit(v, d) ==
  LET limb == IF (d \div 2) + 1 <= Len(v.limbs) THEN v.limbs[(d \div 2) + 1] ELSE 0
  IN  IF d % 2 = 0 THEN limb % 256 ELSE limb \div 256

\* the bytes a slot of the given type must hold for value v
Encoding(d_type, v) ==
  IF IsStringType(d_type) THEN v.b
  ELSE [k \in 1..StructSize(d_type) |-> Digit(v, StructSize(d_type) - k)]

Decoded == bfh # None
Dumped == out_data # None

\* C1: a header dumped with no value changed since it was decoded is, byte
\* for byte, the 400-byte buffer it was decoded from.
C1_RoundTrip ==
  (Decoded /\ Dumped /\ touched = {}) => out_data.b = bfh.data

\* a header full of non-zero fields was decoded and dumped untouched
C1_Witness ==
  /\ Decoded /\ Dumped /\ touched = {}
  /\ \E j \in 1..Len(bfh.data) : bfh.data[j] > 4
  /\ bfh.values["time_code"] # PyInt(0)

\* C2: after one field f was set to an in-range value, the dump has 400
\* bytes, equals the decoded buffer outside f's byte range, and holds the
\* big-endian (or raw byte string) encoding of the new value inside it.
C2_SelectiveMutation ==
  \A f \in touched :
    (/\ Decoded /\ Dumped /\ touched = {f}
     /\ f \in DOMAIN bfh.values
     /\ bfh.values[f] \in InRangeValues(TypeOf(f)))
    => LET lo == SlotLo(f)
           hi == SlotHi(f)
       IN  /\ Len(out_data.b) = BINARY_FILE_HEADER_SIZE
           /\ \A j \in 1..BINARY_FILE_HEADER_SIZE :
                (j - 1 < lo \/ j - 1 >= hi) => out_data.b[j] = bfh.data[j]
           /\ SubSeq(out_data.b, lo + 1, hi) = Encoding(TypeOf(f), bfh.values[f])

\* an 8-byte field was set to a value its old bytes did not hold, then dumped
C2_Witness ==
  /\ Decoded /\ Dumped /\ touched = {"ext_nr_of_traces"}
  /\ bfh.values["ext_nr_of_traces"] = PyInt(NrOfExtensionsValue)
  /\ SubSeq(bfh.data, SlotLo("ext_nr_of_traces") + 1, SlotHi("ext_nr_of_traces"))
       # SubSeq(out_data.b, SlotLo("ext_nr_of_traces") + 1, SlotHi("ext_nr_of_traces"))

\* the run so far is main(): both headers built from the segments of the
\* file with the default offset, nr_of_extensions set to 16, file written
MainRun ==
  /\ pc = "done"
  /\ tfh # None /\ tfh.data = textual_file_header
  /\ Decoded /\ bfh.data = binary_file_header /\ bfh.offset = DefaultOffset
  /\ touched = {"nr_of_extensions"}
  /\ bfh.values["nr_of_extensions"] = PyInt(NrOfExtensionsValue)

\* nr_of_extensions is 0 in the input file
InputExtensionsZero ==
  \A j \in (TEXTUAL_FILE_HEADER_SIZE + SlotLo("nr_of_extensions") + 1)..
           (TEXTUAL_FILE_HEADER_SIZE + SlotHi("nr_of_extensions")) : file[j] = 0

\* C3: main() on a file of 3200 + 400 + N bytes with nr_of_extensions = 0
\* writes a file of the same length that differs from the input only inside
\* the recorded 2-byte range of nr_of_extensions; the payload is unchanged.
C3_ReadModifyWrite ==
  (MainRun /\ InputExtensionsZero)
  => /\ dest.exists
     /\ Len(dest.bytes) = Len(file)
     /\ bfh.pos_value["nr_of_extensions"][2] = bfh.pos_value["nr_of_extensions"][1] + 2
     /\ \A j \in 1..Len(file) :
          dest.bytes[j] # file[j]
            => /\ j - 1 >= bfh.pos_value["nr_of_extensions"][1]
               /\ j - 1 < bfh.pos_value["nr_of_extensions"][2]
     /\ SliceFrom(dest.bytes, TEXTUAL_FILE_HEADER_SIZE + BINARY_FILE_HEADER_SIZE)
          = SliceFrom(file, TEXTUAL_FILE_HEADER_SIZE + BINARY_FILE_HEADER_SIZE)

\* main() has written a file with payload bytes whose header slot changed
C3_Witness ==
  /\ MainRun /\ InputExtensionsZero
  /\ Len(file) > TEXTUAL_FILE_HEADER_SIZE + BINARY_FILE_HEADER_SIZE
  /\ dest.bytes # file
  /\ bfh.values["job_nr"] # PyInt(0)

\* bytes of the int_constant slot of a 400-byte buffer
SentinelBytes(data) == SubSeq(data, SlotLo("int_constant") + 1, SlotHi("int_constant"))

BinaryCall == call.class = "BinaryFileHeader"
TextualCall == call.class = "TextualFileHeader"

\* C4: a BinaryFileHeader built from a buffer of another length than 400,
\* or a TextualFileHeader from another length than 3200, fails on the
\* length assertion and makes no object; an object that exists holds a
\* buffer of the exact size, the one it was given.
C4_LengthEnforcement ==
  /\ (BinaryCall /\ Len(call.data) # BINARY_FILE_HEADER_SIZE)
       => (pc = "failed" /\ err = AssertionError("", 87) /\ bfh = None)
  /\ (TextualCall /\ Len(call.data) # TEXTUAL_FILE_HEADER_SIZE)
       => (pc = "failed" /\ err = AssertionError("", 132) /\ tfh = None)
  /\ Decoded => (Len(bfh.data) = BINARY_FILE_HEADER_SIZE /\ (BinaryCall => bfh.data = call.data))
  /\ tfh # None => Len(tfh.data) = TEXTUAL_FILE_HEADER_SIZE

\* a 401-byte buffer that starts with a valid header was refused
C4_Witness ==
  /\ BinaryCall
  /\ Len(call.data) = BINARY_FILE_HEADER_SIZE + 1
  /\ SentinelBytes(call.data) = <<1, 2, 3, 4>>
  /\ pc = "failed"

\* C5: a header object exists only for a buffer whose int_constant bytes
\* are 01 02 03 04; a 400-byte buffer with other bytes there fails on the
\* endianness assertion and yields no object.
C5_EndiannessGate ==
  /\ Decoded => SentinelBytes(bfh.data) = <<1, 2, 3, 4>>
  /\ (BinaryCall /\ Len(call.data) = BINARY_FILE_HEADER_SIZE
        /\ SentinelBytes(call.data) # <<1, 2, 3, 4>>)
       => (pc = "failed" /\ err = AssertionError("Wrong endianness", 109) /\ bfh = None)

\* a 400-byte buffer with the sentinel bytes reversed was refused
C5_Witness ==
  /\ BinaryCall
  /\ Len(call.data) = BINARY_FILE_HEADER_SIZE
  /\ SentinelBytes(call.data) = <<4, 3, 2, 1>>
  /\ pc = "failed"

\* the one changed field is missing or holds a value of the wrong type or width
BadField(f) ==
  /\ Decoded /\ touched = {f}
  /\ \/ f \notin DOMAIN bfh.values
     \/ bfh.values[f] \in BadValues(TypeOf(f))

\* C6: with a field f missing or holding a value of the wrong type or
\* width, dump_data() returns no buffer and fails with an error naming f.
C6_EncodePrecondition ==
  \A f \in touched :
    BadField(f)
    => /\ ~Dumped
       /\ pc # "done"
       /\ (pc = "failed" => err.arg = f)

\* C7: when write_file_to_disk fails, the destination is as it was before
\* the call or holds the complete output, never a strict prefix of it.
C7_NoPartialFile ==
  (pc = "failed" /\ Decoded)
  => \/ dest = dest0
     \/ /\ dump_data(bfh).ok
        /\ dest.bytes = (textual_file_header \o dump_data(bfh).bytes) \o rest

\* C8: a decoded textual header has 40 lines of 80 characters each, line i
\* being characters [80*i, 80*(i+1)) of the text, so that the lines in
\* order concatenate to the text.
C8_LineSegmentation ==
  tfh # None
  => /\ Len(tfh.lines) = 40
     /\ Len(tfh.text) = 40 * 80
     /\ \A i \in 1..Len(tfh.lines) :
          /\ Len(tfh.lines[i]) = 80
          /\ tfh.lines[i] = SubSeq(tfh.text, 80 * (i - 1) + 1, 80 * i)

\* a header whose lines are not all alike was decoded
C8_Witness ==
  /\ tfh # None
  /\ tfh.lines[1] # tfh.lines[2]
  /\ tfh.text[1] # tfh.data[1]

NamesUnique ==
  \A i, j \in 1..Len(defined_fields) :
    defined_fields[i][2] = defined_fields[j][2] => i = j

\* C9 as stated: the schema has 46 uniquely named fields and a header, as
\* decoded, has one value per declared field and no other key.
C9_FieldTable46 ==
  Decoded => (/\ Len(defined_fields) = 46
              /\ Len(bfh.fields) = 46
              /\ NamesUnique
              /\ (touched = {} => DOMAIN bfh.values = FieldNames))

\* C9 amended: the schema has 47 uniquely named fields and a header, as
\* decoded, has one value per declared field and no other key.
C9_FieldTable47 ==
  Decoded => (/\ Len(defined_fields) = 47
              /\ Len(bfh.fields) = 47
              /\ Cardinality(FieldNames) = 47
              /\ NamesUnique
              /\ (touched = {} => DOMAIN bfh.values = FieldNames)
              /\ \A i \in 1..Len(bfh.fields) : bfh.fields[i].name = defined_fields[i][2])

\* a header was decoded
C9_Witness ==
  /\ Decoded
  /\ touched = {}
  /\ bfh.values["unassigned_2"].tag = "bytes"

\* C10: the recorded ranges, in schema order, tile [o, o + 400): the first
\* starts at o, each starts where the one before ends, each is as wide as
\* its field's declared length, the last ends at o + 400; this holds after
\* values were changed and after dump_data() as well.
C10_LayoutTiling ==
  Decoded
  => LET pv == bfh.pos_value
         o == bfh.offset
         n == Len(defined_fields)
         name(i) == defined_fields[i][2]
     IN  /\ DOMAIN pv = FieldNames
         /\ pv[name(1)][1] = o
         /\ \A i \in 2..n : pv[name(i)][1] = pv[name(i - 1)][2]
         /\ \A i \in 1..n : /\ pv[name(i)][2] - pv[name(i)][1] = StructSize(defined_fields[i][1])
                            /\ pv[name(i)][3] = defined_fields[i][1]
         /\ pv[name(n)][2] = o + BINARY_FILE_HEADER_SIZE

\* a header decoded at a base offset other than 0 was changed and dumped
C10_Witness ==
  /\ Decoded /\ Dumped
  /\ touched # {}
  /\ bfh.offset # 0
  /\ bfh.pos_value["job_nr"][1] = bfh.offset

====
